---- MODULE Spec2Model ----
(***************************************************************************)
(* State-machine model of the SmartRapor single-page application, in its   *)
(* two variants:                                                           *)
(*   "app"  = src/App.tsx            (AI scan, name-matching sync)         *)
(*   "part" = src/unnamed/part_000   (PDF export, id-based sync)           *)
(* The React component is modelled as its state hooks plus the passive     *)
(* effects that a commit leaves pending.  Effects run in declaration order *)
(* (save effect, then semester-count effect) and are flushed before the    *)
(* next event is handled, so every handler is guarded by "no effect        *)
(* pending".  The save effect of a commit is part of the step that makes   *)
(* the commit (it is the trailing write of every setData); after the mount *)
(* it is a step of its own, and the semester-count effect always is.       *)
(* Full-viewport overlays (scanning loader, welcome dialog, final modal,   *)
(* summary popup) cover the page, so the page's handlers are not reachable *)
(* while one of them is shown.                                             *)
(* Numbers are exact rationals <<numerator, denominator>>; floating-point  *)
(* rounding of the JavaScript doubles is not modelled.                     *)
(***************************************************************************)
EXTENDS Integers, Sequences, FiniteSets, TLC

VARIABLES
  variant,           \* which source file is running: "app" or "part"
  data,              \* useState<AppData>
  storage,           \* the local-storage key: NoRecord or <<an AppData record>>
  activeSemesterId,  \* useState<number>(1)
  isLoaded,          \* useState(false)
  showWelcome,       \* useState(false)
  showResults,       \* useState(false)
  isCalculating,     \* useState(false)
  showFinalModal,    \* useState(false)            ("app" only)
  showSummaryPopup,  \* useState(false)            ("part" only)
  timer,             \* the pending setTimeout callback of triggerAnalysis
  isScanning,        \* useState(false)            ("app" only)
  scan,              \* the running handleScanImage: its semester, the data it started
                     \* from, its per-image calls and the order in which they returned
  alertOpen,         \* the blocking alert() of handleScanImage's catch
  delayEdits,        \* page events handled since the pending timer was set
  savePending,       \* the save effect is scheduled to run
  countPending,      \* the semester-count effect is scheduled to run
  isExporting,       \* useState(false)            ("part" only)
  exportPc,          \* where the running handleExportPDF is: "idle", "delay", "raster"
  exportResult       \* how the last handleExportPDF ended: "none", "saved", "error"

vars == <<variant, data, storage, activeSemesterId, isLoaded, showWelcome,
          showResults, isCalculating, showFinalModal, showSummaryPopup, timer,
          isScanning, scan, alertOpen, delayEdits, savePending, countPending,
          isExporting, exportPc, exportResult>>

exportVars == <<isExporting, exportPc, exportResult>>

(***************************************************************************)
(* Bounds of the model                                                     *)
(***************************************************************************)
\* most subjects the user adds to semester 1
MaxSubjects == 2
\* largest semester tab the user opens
MaxActive == 2
\* most images in one upload
MaxFiles == 2
\* most page events the user fits into the 1200 ms of the analysis delay
MaxDelayEdits == 1
\* the user reopens the welcome dialog while semester 1 has at most this many subjects
MaxSubjectsAtReopen == 0

\* values typed into the semester-count input ("" parses to NaN, stored as 0)
SemInputs == {0, 1, 2}
\* values typed into the target input
TargetInputs == {0, 150}
\* further values typed into these two inputs: negative numbers, numbers above the caps
SemInputsWide == SemInputs \cup {-1, 13}
TargetInputsWide == TargetInputs \cup {-5}
\* values typed into a score input
ScoreInputs == {-5, 150}
\* subject names typed by the user, as sequences of characters
NameInputs == {<<>>, <<"m">>}
\* user names typed into the welcome dialog
UserInputs == {"", "u"}
\* the subject lists one image's call can return
ScanResults == { << [name |-> <<"M", " ">>, score |-> 150] >>,
                 << [name |-> <<"m">>, score |-> 0] >> }

\* the storage key is absent; a stored record r is held as <<r>>
NoRecord == <<>>

(***************************************************************************)
(* Arithmetic helpers                                                      *)
(***************************************************************************)
Max(a, b) == IF a >= b THEN a ELSE b
Min(a, b) == IF a <= b THEN a ELSE b
Abs(a) == IF a < 0 THEN -a ELSE a

RECURSIVE Gcd(_, _)
Gcd(a, b) == IF b = 0 THEN a ELSE Gcd(b, a % b)

\* rationals: <<n, d>> with d > 0, in lowest terms
Rat(n, d) ==
  LET s == IF d < 0 THEN -1 ELSE 1
      g == Gcd(Abs(n), Abs(d))
  IN  IF n = 0 THEN <<0, 1>> ELSE <<(s * n) \div g, (s * d) \div g>>
RInt(n) == <<n, 1>>
RAdd(a, b) == Rat(a[1] * b[2] + b[1] * a[2], a[2] * b[2])
RSub(a, b) == Rat(a[1] * b[2] - b[1] * a[2], a[2] * b[2])
RMulInt(a, k) == Rat(a[1] * k, a[2])
RDivInt(a, k) == Rat(a[1], a[2] * k)
RLeq(a, b) == a[1] * b[2] <= b[1] * a[2]
RLess(a, b) == a[1] * b[2] < b[1] * a[2]
RMax(a, b) == IF RLeq(b, a) THEN a ELSE b
RMin(a, b) == IF RLeq(a, b) THEN a ELSE b

(***************************************************************************)
(* Sequence helpers                                                        *)
(***************************************************************************)
RECURSIVE SelectSeqIdx(_, _, _)
\* indices i >= from of s whose element satisfies Test, ascending
SelectSeqIdx(s, Test(_), from) ==
  IF from > Len(s) THEN <<>>
  ELSE IF Test(s[from]) THEN <<from>> \o SelectSeqIdx(s, Test, from + 1)
       ELSE SelectSeqIdx(s, Test, from + 1)

\* Array.prototype.find / findIndex: the first index whose element passes, 0 if none
FindIndex(s, Test(_)) ==
  IF \E i \in 1..Len(s) : Test(s[i])
  THEN CHOOSE i \in 1..Len(s) : Test(s[i]) /\ \A j \in 1..(i - 1) : ~Test(s[j])
  ELSE 0

Range(s) == {s[i] : i \in 1..Len(s)}

(***************************************************************************)
(* Data model                                                              *)
(***************************************************************************)
\* the number of semesters of INITIAL_DATA
InitialSemesters == 6
\* the targetAvg of INITIAL_DATA
InitialTarget == 85
\* the cap of the semester-count input
SemCap == 12
\* the cap of the target input, of the score inputs and of neededAvg
ScoreCap == 100

INITIAL_DATA ==
  [ userName |-> "",
    semesters |-> [i \in 1..InitialSemesters |-> [id |-> i, subjects |-> <<>>]],
    targetAvg |-> InitialTarget,
    totalSemestersTarget |-> InitialSemesters ]

\* every subject id held anywhere in a semester list
IdsOf(sems) == UNION { {sems[k].subjects[j].id : j \in 1..Len(sems[k].subjects)}
                       : k \in 1..Len(sems) }

RECURSIVE NthFresh(_, _, _)
\* generateId(): an id no subject holds; the n-th such id counting up from c
NthFresh(used, c, n) ==
  IF c \in used THEN NthFresh(used, c + 1, n)
  ELSE IF n = 1 THEN c ELSE NthFresh(used, c + 1, n - 1)
generateId(used, n) == NthFresh(used, 1, n)

RECURSIVE Flat(_)
\* Array.prototype.flat(): the concatenation of a sequence of sequences
Flat(results) == IF Len(results) = 0 THEN <<>> ELSE Head(results) \o Flat(Tail(results))

RECURSIVE FirstOccurrences(_, _)
\* the distinct elements of seq, in the order of their first occurrence
FirstOccurrences(seq, seen) ==
  IF Len(seq) = 0 THEN <<>>
  ELSE IF Head(seq) \in seen THEN FirstOccurrences(Tail(seq), seen)
       ELSE <<Head(seq)>> \o FirstOccurrences(Tail(seq), seen \cup {Head(seq)})

\* The ids generateId() draws are random strings: the program only ever compares
\* them for equality.  A semester list is therefore kept up to a renaming of its
\* ids, the ids numbered in the order the list first mentions them.
CanonicalIds(sems) ==
  LET order == FirstOccurrences(
                 Flat([k \in 1..Len(sems) |->
                         [j \in 1..Len(sems[k].subjects) |-> sems[k].subjects[j].id]]),
                 {})
      Number(x) == CHOOSE i \in 1..Len(order) : order[i] = x
  IN  [ k \in 1..Len(sems) |->
          [sems[k] EXCEPT !.subjects =
             [ j \in 1..Len(sems[k].subjects) |->
                 [sems[k].subjects[j] EXCEPT !.id = Number(sems[k].subjects[j].id)] ]] ]

\* an AppData record with its ids renamed canonically
Canonical(d) == [d EXCEPT !.semesters = CanonicalIds(@)]

(***************************************************************************)
(* Derived values (useMemo / useCallback)                                  *)
(***************************************************************************)
Scored(sub) == sub.score > 0

\* the bug: one unscored subject is tolerated
getSemesterStatusLoose(semester) ==
  LET scoredCount == Len(SelectSeqIdx(semester.subjects, Scored, 1))
  IN  IF Len(semester.subjects) = 0 THEN "empty"
      ELSE IF scoredCount = 0 THEN "empty"
      ELSE IF scoredCount < Len(semester.subjects) - 1 THEN "partial"
      ELSE "complete"

getSemesterStatus(semester) ==
  LET scoredCount == Len(SelectSeqIdx(semester.subjects, Scored, 1))
  IN  IF Len(semester.subjects) = 0 THEN "empty"
      ELSE IF scoredCount = 0 THEN "empty"
      ELSE IF scoredCount < Len(semester.subjects) THEN "partial"
      ELSE "complete"

IsComplete(semester) == getSemesterStatus(semester) = "complete"

\* data.semesters.filter(s => getSemesterStatus(s) === 'complete')
completeSemesters(d) ==
  LET idx == SelectSeqIdx(d.semesters, IsComplete, 1)
  IN  [i \in 1..Len(idx) |-> d.semesters[idx[i]]]

RECURSIVE SumScores(_, _)
SumScores(subjects, i) ==
  IF i > Len(subjects) THEN 0 ELSE subjects[i].score + SumScores(subjects, i + 1)

\* utils: the arithmetic mean of the subjects' scores, 0 without subjects
calculateSemesterAverage(semester) ==
  IF Len(semester.subjects) = 0 THEN RInt(0)
  ELSE Rat(SumScores(semester.subjects, 1), Len(semester.subjects))

RECURSIVE SumAveragesOfTotals(_, _)
\* the bug: the reduce adds up the semesters' score totals, not their averages
SumAveragesOfTotals(sems, i) ==
  IF i > Len(sems) THEN RInt(0)
  ELSE RAdd(RInt(SumScores(sems[i].subjects, 1)), SumAveragesOfTotals(sems, i + 1))

RECURSIVE SumAverages(_, _)
\* completeSemesters.reduce((acc, sem) => acc + calculateSemesterAverage(sem), 0)
SumAverages(sems, i) ==
  IF i > Len(sems) THEN RInt(0)
  ELSE RAdd(calculateSemesterAverage(sems[i]), SumAverages(sems, i + 1))

\* utils: the mean of the semesters' averages, 0 without semesters
calculateOverallAverage(sems) ==
  IF Len(sems) = 0 THEN RInt(0) ELSE RDivInt(SumAverages(sems, 1), Len(sems))

overallAvg(d) == calculateOverallAverage(completeSemesters(d))

neededRaw(d) ==
  LET cs == completeSemesters(d)
      remaining == d.totalSemestersTarget - Len(cs)
      targetTotalSum == d.targetAvg * d.totalSemestersTarget
  IN  RDivInt(RSub(RInt(targetTotalSum), SumAverages(cs, 1)), remaining)

\* the bug: the upper clamp is missing
neededAvgAppNoCap(d) ==
  LET remaining == d.totalSemestersTarget - Len(completeSemesters(d))
  IN  IF remaining <= 0 THEN RInt(0) ELSE RMax(RInt(0), neededRaw(d))

\* src/App.tsx: Math.max(0, Math.min(100, needed))
neededAvgApp(d) ==
  LET remaining == d.totalSemestersTarget - Len(completeSemesters(d))
  IN  IF remaining <= 0 THEN RInt(0)
      ELSE RMax(RInt(0), RMin(RInt(ScoreCap), neededRaw(d)))

\* the bug: the target is not multiplied by the number of semesters
neededAvgPartNoTotal(d) ==
  LET cs == completeSemesters(d)
      remaining == d.totalSemestersTarget - Len(cs)
  IN  IF remaining <= 0 THEN RInt(0)
      ELSE RMax(RInt(0), RDivInt(RSub(RInt(d.targetAvg), SumAverages(cs, 1)), remaining))

\* src/unnamed/part_000: Math.max(0, needed)
neededAvgPart(d) ==
  LET remaining == d.totalSemestersTarget - Len(completeSemesters(d))
  IN  IF remaining <= 0 THEN RInt(0) ELSE RMax(RInt(0), neededRaw(d))

neededAvg(v, d) == IF v = "app" THEN neededAvgApp(d) ELSE neededAvgPart(d)

allSemestersComplete(d) ==
  /\ Len(completeSemesters(d)) = d.totalSemestersTarget
  /\ Len(completeSemesters(d)) > 0

hasPartial(d) ==
  \E k \in 1..Len(d.semesters) : getSemesterStatus(d.semesters[k]) = "partial"

\* the bug: a partial semester does not block the analysis
canCalculateAppIgnoresPartial(d) ==
  /\ Len(completeSemesters(d)) > 0
  /\ d.targetAvg > 0
  /\ d.totalSemestersTarget > 0

\* validation.canCalculate of src/App.tsx
canCalculateApp(d) ==
  /\ ~hasPartial(d)
  /\ Len(completeSemesters(d)) > 0
  /\ d.targetAvg > 0
  /\ d.totalSemestersTarget > 0

\* validation.canCalculate of src/unnamed/part_000
canCalculatePart(d) ==
  /\ ~hasPartial(d)
  /\ Len(completeSemesters(d)) > 0
  /\ d.targetAvg > 0 /\ d.targetAvg <= ScoreCap
  /\ d.totalSemestersTarget > 0

canCalculate(v, d) == IF v = "app" THEN canCalculateApp(d) ELSE canCalculatePart(d)

\* data.semesters.find(s => s.id === activeSemesterId) || null: its index, 0 for null
ActiveIndex(d, a) ==
  LET HasId(s) == s.id = a IN FindIndex(d.semesters, HasId)

(***************************************************************************)
(* Semester 1 as the template: src/App.tsx                                 *)
(***************************************************************************)
\* syncS1ToOthers: every other semester is rebuilt from semester 1's subjects,
\* keeping the first entry of the same name and creating a scoreless one otherwise
syncS1ToOthers(allSemesters) ==
  IF Len(allSemesters) = 0 THEN allSemesters
  ELSE
    LET s1 == allSemesters[1]
        m == Len(s1.subjects)
        used == IdsOf(allSemesters)
        NewSubjects(k) ==
          [ j \in 1..m |->
              LET template == s1.subjects[j]
                  SameName(sub) == sub.name = template.name
                  e == FindIndex(allSemesters[k].subjects, SameName)
              IN  IF e > 0 THEN allSemesters[k].subjects[e]
                  ELSE [ id |-> generateId(used, (k - 1) * m + j),
                         name |-> template.name, score |-> 0 ] ]
    IN  [ k \in 1..Len(allSemesters) |->
            IF allSemesters[k].id = 1 THEN allSemesters[k]
            ELSE [allSemesters[k] EXCEPT !.subjects = NewSubjects(k)] ]

\* s.subjects.map(sub => sub.id === subId ? { ...sub, [field]: value } : sub)
SetField(subjects, subId, field, value) ==
  [ j \in 1..Len(subjects) |->
      IF subjects[j].id = subId
      THEN IF field = "name" THEN [subjects[j] EXCEPT !.name = value]
           ELSE [subjects[j] EXCEPT !.score = value]
      ELSE subjects[j] ]

\* the bug: a rename is not synchronised to the other semesters
handleUpdateSubjectAppNoSync(sems, active, subId, field, value) ==
  [ k \in 1..Len(sems) |->
      IF sems[k].id = active
      THEN [sems[k] EXCEPT !.subjects = SetField(sems[k].subjects, subId, field, value)]
      ELSE sems[k] ]

\* handleUpdateSubject of src/App.tsx: the new data.semesters
handleUpdateSubjectApp(sems, active, subId, field, value) ==
  LET updatedSems ==
        [ k \in 1..Len(sems) |->
            IF sems[k].id = active
            THEN [sems[k] EXCEPT !.subjects = SetField(sems[k].subjects, subId, field, value)]
            ELSE sems[k] ]
  IN  IF active = 1 /\ field = "name" THEN syncS1ToOthers(updatedSems) ELSE updatedSems

\* s.subjects.filter(keep)
FilterSubjects(subjects, Keep(_)) ==
  LET idx == SelectSeqIdx(subjects, Keep, 1)
  IN  [ i \in 1..Len(idx) |-> subjects[idx[i]] ]

\* handleDeleteSubject of src/App.tsx: the new data.semesters
handleDeleteSubjectApp(sems, subId) ==
  LET s1 == sems[1]
      HasId(s) == s.id = subId
      t == FindIndex(s1.subjects, HasId)
  IN  IF t = 0 THEN sems
      ELSE
        LET targetSub == s1.subjects[t]
            OtherId(s) == s.id # subId
            OtherName(s) == s.name # targetSub.name
        IN  [ k \in 1..Len(sems) |->
                IF sems[k].id = 1
                THEN [s1 EXCEPT !.subjects = FilterSubjects(s1.subjects, OtherId)]
                ELSE [sems[k] EXCEPT !.subjects = FilterSubjects(sems[k].subjects, OtherName)] ]

\* handleAddSubject of src/App.tsx: the new data.semesters
handleAddSubjectApp(sems) ==
  LET newId == generateId(IdsOf(sems), 1)
      updatedSems ==
        [ k \in 1..Len(sems) |->
            IF sems[k].id = 1
            THEN [sems[k] EXCEPT !.subjects =
                    Append(@, [id |-> newId, name |-> <<>>, score |-> 0])]
            ELSE sems[k] ]
  IN  syncS1ToOthers(updatedSems)

(***************************************************************************)
(* The same handlers in src/unnamed/part_000                               *)
(***************************************************************************)
handleAddSubjectPart(sems) ==
  LET newId == generateId(IdsOf(sems), 1)
  IN  [ k \in 1..Len(sems) |->
          [sems[k] EXCEPT !.subjects =
             Append(@, [id |-> newId, name |-> <<>>, score |-> 0])] ]

handleUpdateSubjectPart(sems, active, subId, field, value) ==
  [ k \in 1..Len(sems) |->
      IF field = "name"
      THEN [sems[k] EXCEPT !.subjects = SetField(sems[k].subjects, subId, "name", value)]
      ELSE IF sems[k].id = active
           THEN [sems[k] EXCEPT !.subjects = SetField(sems[k].subjects, subId, field, value)]
           ELSE sems[k] ]

handleDeleteSubjectPart(sems, subId) ==
  LET OtherId(s) == s.id # subId
  IN  [ k \in 1..Len(sems) |->
          [sems[k] EXCEPT !.subjects = FilterSubjects(sems[k].subjects, OtherId)] ]

(***************************************************************************)
(* The semester-count effect                                               *)
(***************************************************************************)
\* const targetCount = Math.max(1, data.totalSemestersTarget)
targetCount(d) == Max(1, d.totalSemestersTarget)

\* the bug: slice(0, targetCount + 1)
ResizeAppSliceTooLong(sems, n) ==
  IF Len(sems) < n
  THEN LET toAdd == n - Len(sems)
           m == IF Len(sems) > 0 THEN Len(sems[1].subjects) ELSE 0
           used == IdsOf(sems)
       IN  sems \o
           [ i \in 1..toAdd |->
               [ id |-> Len(sems) + i,
                 subjects |->
                   [ j \in 1..m |->
                       [ id |-> generateId(used, (i - 1) * m + j),
                         name |-> sems[1].subjects[j].name,
                         score |-> 0 ] ] ] ]
  ELSE SubSeq(sems, 1, Min(Len(sems), n + 1))

\* src/App.tsx: the updater of the effect, run when the length differs from n
ResizeApp(sems, n) ==
  IF Len(sems) < n
  THEN LET toAdd == n - Len(sems)
           m == IF Len(sems) > 0 THEN Len(sems[1].subjects) ELSE 0
           used == IdsOf(sems)
       IN  sems \o
           [ i \in 1..toAdd |->
               [ id |-> Len(sems) + i,
                 subjects |->
                   [ j \in 1..m |->
                       [ id |-> generateId(used, (i - 1) * m + j),
                         name |-> sems[1].subjects[j].name,
                         score |-> 0 ] ] ] ]
  ELSE SubSeq(sems, 1, n)

\* the bug: the clones keep semester 1's scores
ResizePartKeepScores(sems, n) ==
  IF Len(sems) < n
  THEN sems \o [ i \in 1..(n - Len(sems)) |->
                   [ id |-> Len(sems) + i,
                     subjects |-> IF Len(sems) > 0 THEN sems[1].subjects ELSE <<>> ] ]
  ELSE IF Len(sems) > n THEN SubSeq(sems, 1, n)
  ELSE sems

\* the bug: id: i + 1, the new ids start again at 1
ResizePartIdsFromOne(sems, n) ==
  IF Len(sems) < n
  THEN sems \o [ i \in 1..(n - Len(sems)) |->
                   [ id |-> i,
                     subjects |-> IF Len(sems) > 0
                                  THEN [ j \in 1..Len(sems[1].subjects) |->
                                           [sems[1].subjects[j] EXCEPT !.score = 0] ]
                                  ELSE <<>> ] ]
  ELSE IF Len(sems) > n THEN SubSeq(sems, 1, n)
  ELSE sems

\* src/unnamed/part_000: the updater of the effect
ResizePart(sems, n) ==
  IF Len(sems) < n
  THEN LET toAdd == n - Len(sems)
           m == IF Len(sems) > 0 THEN Len(sems[1].subjects) ELSE 0
       IN  sems \o
           [ i \in 1..toAdd |->
               [ id |-> Len(sems) + i,
                 subjects |->
                   [ j \in 1..m |-> [sems[1].subjects[j] EXCEPT !.score = 0] ] ] ]
  ELSE IF Len(sems) > n THEN SubSeq(sems, 1, n)
  ELSE sems

(***************************************************************************)
(* The merge of handleScanImage (src/App.tsx)                              *)
(***************************************************************************)
\* String.prototype.toLowerCase, per character
LowerChar(c) == IF c = "M" THEN "m" ELSE c
\* /\s/
IsSpace(c) == c = " "

RECURSIVE NormName(_)
\* name.toLowerCase().replace(/\s/g, '')
NormName(name) ==
  IF Len(name) = 0 THEN <<>>
  ELSE IF IsSpace(Head(name)) THEN NormName(Tail(name))
       ELSE <<LowerChar(Head(name))>> \o NormName(Tail(name))

RECURSIVE MergeDetected(_, _, _)
\* allDetected.forEach(item => ...) on the copy of the active semester's subjects;
\* current[idx].score = item.score writes the subject object itself, which a
\* semester may list more than once (the entries of one id)
MergeDetected(current, allDetected, used) ==
  IF Len(allDetected) = 0 THEN current
  ELSE
    LET item == Head(allDetected)
        SameNorm(c) == NormName(c.name) = NormName(item.name)
        idx == FindIndex(current, SameNorm)
    IN  IF idx > 0
        THEN IF item.score > 0
             THEN MergeDetected(
                    [ j \in 1..Len(current) |->
                        IF current[j].id = current[idx].id
                        THEN [current[j] EXCEPT !.score = item.score]
                        ELSE current[j] ],
                    Tail(allDetected), used)
             ELSE MergeDetected(current, Tail(allDetected), used)
        ELSE LET newId == generateId(used, 1)
             IN  MergeDetected(
                   Append(current, [id |-> newId, name |-> item.name, score |-> item.score]),
                   Tail(allDetected), used \cup {newId})

\* the updater of handleScanImage: the new data.semesters
ScanMergeSems(sems, active, allDetected) ==
  LET updatedSems ==
        [ k \in 1..Len(sems) |->
            IF sems[k].id = active
            THEN [sems[k] EXCEPT !.subjects = MergeDetected(@, allDetected, IdsOf(sems))]
            ELSE sems[k] ]
  IN  IF active = 1 THEN syncS1ToOthers(updatedSems) ELSE updatedSems

(***************************************************************************)
(* Effects and their dependency arrays                                     *)
(***************************************************************************)
\* the bug: data is missing from the dependency array
SaveEffectDueLoadOnly(dataChanged, loadedChanged) == loadedChanged

\* useEffect(..., [data, isLoaded]): the save effect reruns
SaveEffectDue(dataChanged, loadedChanged) == dataChanged \/ loadedChanged

\* src/App.tsx: useEffect(..., [data.totalSemestersTarget, isLoaded, data.semesters.length])
CountEffectDueApp(totalChanged, loadedChanged, lengthChanged) ==
  totalChanged \/ loadedChanged \/ lengthChanged

\* src/unnamed/part_000: useEffect(..., [data.totalSemestersTarget, isLoaded])
CountEffectDuePart(totalChanged, loadedChanged, lengthChanged) ==
  totalChanged \/ loadedChanged

CountEffectDue(v, totalChanged, loadedChanged, lengthChanged) ==
  IF v = "app" THEN CountEffectDueApp(totalChanged, loadedChanged, lengthChanged)
  ELSE CountEffectDuePart(totalChanged, loadedChanged, lengthChanged)

\* utils: the record written under the storage key
saveToStorage(d) == <<d>>
\* utils: the record read back, NoRecord when the key is absent
loadFromStorage(st) == st

\* a record an earlier session of the same variant saved
StoredRecord(v) ==
  [ userName |-> "u",
    semesters |->
      << [id |-> 1, subjects |-> << [id |-> 1, name |-> <<"m">>, score |-> 50] >>],
         [id |-> 2, subjects |->
            << [id |-> IF v = "app" THEN 2 ELSE 1, name |-> <<"m">>, score |-> 0] >>] >>,
    targetAvg |-> ScoreCap,
    totalSemestersTarget |-> 2 ]

NoScan == [sem |-> 0, before |-> NoRecord, calls |-> <<>>, done |-> <<>>]

EffectsIdle == isLoaded /\ ~savePending /\ ~countPending

\* the page under the overlays can be operated
PageFree ==
  /\ EffectsIdle
  /\ ~isScanning /\ ~alertOpen
  /\ ~showWelcome /\ ~showFinalModal /\ ~showSummaryPopup
  /\ timer # "none" => delayEdits < MaxDelayEdits

\* a page event is handled: it counts if the timer is pending
PageEvent == delayEdits' = IF timer # "none" THEN delayEdits + 1 ELSE delayEdits

\* setData(next): the commit, the save effect it triggers, and whether it
\* schedules the semester-count effect
SetData(next) ==
  /\ data' = Canonical(next)
  /\ storage' = IF isLoaded /\ SaveEffectDue(TRUE, FALSE)
                THEN saveToStorage(Canonical(next)) ELSE storage
  /\ savePending' = FALSE
  /\ countPending' =
       CountEffectDue(variant,
                      next.totalSemestersTarget # data.totalSemestersTarget, FALSE,
                      Len(next.semesters) # Len(data.semesters))

Init ==
  /\ variant \in {"app", "part"}
  /\ data = INITIAL_DATA
  /\ storage \in {NoRecord, <<StoredRecord(variant)>>}
  /\ activeSemesterId = 1
  /\ isLoaded = FALSE
  /\ showWelcome = FALSE
  /\ showResults = FALSE
  /\ isCalculating = FALSE
  /\ showFinalModal = FALSE
  /\ showSummaryPopup = FALSE
  /\ timer = "none"
  /\ isScanning = FALSE
  /\ scan = NoScan
  /\ alertOpen = FALSE
  /\ delayEdits = 0
  /\ savePending = FALSE
  /\ countPending = FALSE
  /\ isExporting = FALSE
  /\ exportPc = "idle"
  /\ exportResult = "none"

\* the bug: setData(saved) is missing, the state keeps INITIAL_DATA
LoadedDataDropped(saved, d) == d

\* if (saved) setData(saved)
LoadedData(saved, d) == IF saved # NoRecord THEN saved[1] ELSE d

\* the mount pass: the load effect; the save and count effects see isLoaded false
LoadEffect ==
  /\ ~isLoaded
  /\ LET saved == loadFromStorage(storage)
     IN  /\ data' = LoadedData(saved, data)
         /\ showWelcome' = IF saved # NoRecord THEN saved[1].userName = "" ELSE TRUE
  /\ isLoaded' = TRUE
  /\ savePending' = SaveEffectDue(storage # NoRecord, TRUE)
  /\ countPending' = CountEffectDue(variant, FALSE, TRUE, FALSE)
  /\ UNCHANGED <<variant, delayEdits, storage, activeSemesterId, showResults, isCalculating,
                 showFinalModal, showSummaryPopup, timer, isScanning, scan, alertOpen>>
  /\ UNCHANGED exportVars

\* if (isLoaded) saveToStorage(data)
SaveEffect ==
  /\ savePending
  /\ isLoaded
  /\ storage' = saveToStorage(data)
  /\ savePending' = FALSE
  /\ UNCHANGED <<variant, delayEdits, data, activeSemesterId, isLoaded, showWelcome, showResults,
                 isCalculating, showFinalModal, showSummaryPopup, timer, isScanning,
                 scan, alertOpen, countPending>>
  /\ UNCHANGED exportVars

CountEffectApp ==
  /\ variant = "app"
  /\ IF Len(data.semesters) # targetCount(data)
     THEN SetData([data EXCEPT !.semesters = ResizeApp(@, targetCount(data))])
     ELSE /\ countPending' = FALSE
          /\ UNCHANGED <<data, storage, savePending>>
  /\ UNCHANGED activeSemesterId

CountEffectPart ==
  /\ variant = "part"
  /\ LET next == [data EXCEPT !.semesters = ResizePart(@, targetCount(data))]
     IN  \* the updater returns prev itself when the length already fits
         IF next # data
         THEN SetData(next)
         ELSE /\ countPending' = FALSE
              /\ UNCHANGED <<data, storage, savePending>>
  /\ activeSemesterId' = IF activeSemesterId > targetCount(data) THEN 1 ELSE activeSemesterId

\* the semester-count effect, run after the save effect of the same commit
CountEffect ==
  /\ countPending /\ ~savePending
  /\ isLoaded
  /\ \/ CountEffectApp
     \/ CountEffectPart
  /\ UNCHANGED <<variant, delayEdits, isLoaded, showWelcome, showResults, isCalculating,
                 showFinalModal, showSummaryPopup, timer, isScanning, scan, alertOpen>>
  /\ UNCHANGED exportVars

(***************************************************************************)
(* Handlers of the page                                                    *)
(***************************************************************************)
\* the rendered rows: the subjects of the active semester (none when it is null)
ActiveSubjects ==
  LET a == ActiveIndex(data, activeSemesterId)
  IN  IF a = 0 THEN <<>> ELSE data.semesters[a].subjects

\* welcome dialog: onChange of the name input
TypeUserName(u) ==
  /\ EffectsIdle /\ ~isScanning /\ ~alertOpen
  /\ showWelcome
  /\ u # data.userName
  /\ SetData([data EXCEPT !.userName = u])
  /\ UNCHANGED <<variant, delayEdits, activeSemesterId, isLoaded, showWelcome, showResults,
                 isCalculating, showFinalModal, showSummaryPopup, timer, isScanning,
                 scan, alertOpen>>
  /\ UNCHANGED exportVars

\* the bug: setShowWelcome(false) without looking at the name
WelcomeClosesUnnamed(userName) == TRUE

\* data.userName && setShowWelcome(false): an empty name is falsy
WelcomeCloses(userName) == userName # ""

\* welcome dialog: the button or the Enter key
CloseWelcome ==
  /\ EffectsIdle /\ ~isScanning /\ ~alertOpen
  /\ showWelcome
  /\ showWelcome' = IF WelcomeCloses(data.userName) THEN FALSE ELSE showWelcome
  /\ UNCHANGED <<variant, delayEdits, data, storage, activeSemesterId, isLoaded, showResults,
                 isCalculating, showFinalModal, showSummaryPopup, timer, isScanning,
                 scan, alertOpen, savePending, countPending>>
  /\ UNCHANGED exportVars

\* header: onClick={() => setShowWelcome(true)}
OpenWelcome ==
  /\ PageFree
  /\ Len(data.semesters[1].subjects) <= MaxSubjectsAtReopen
  /\ showWelcome' = TRUE
  /\ PageEvent
  /\ UNCHANGED <<variant, data, storage, activeSemesterId, isLoaded, showResults,
                 isCalculating, showFinalModal, showSummaryPopup, timer, isScanning,
                 scan, alertOpen, savePending, countPending>>
  /\ UNCHANGED exportVars

\* the bug: the cap is missing
TargetInputNoCap(v) == v

\* Math.min(100, parseFloat(e.target.value) || 0)
TargetInput(v) == Min(ScoreCap, v)

\* target input
SetTargetAvg(v) ==
  /\ PageFree
  /\ SetData([data EXCEPT !.targetAvg = TargetInput(v)])
  /\ PageEvent
  /\ UNCHANGED <<variant, activeSemesterId, isLoaded, showWelcome, showResults,
                 isCalculating, showFinalModal, showSummaryPopup, timer, isScanning,
                 scan, alertOpen>>
  /\ UNCHANGED exportVars

\* the bug: the cap is missing
CountInputNoCap(v) == v

\* Math.min(12, parseInt(e.target.value) || 0)
CountInput(v) == Min(SemCap, v)

\* semester-count input
SetTotalSemesters(v) ==
  /\ PageFree
  /\ SetData([data EXCEPT !.totalSemestersTarget = CountInput(v)])
  /\ PageEvent
  /\ UNCHANGED <<variant, activeSemesterId, isLoaded, showWelcome, showResults,
                 isCalculating, showFinalModal, showSummaryPopup, timer, isScanning,
                 scan, alertOpen>>
  /\ UNCHANGED exportVars

\* semester tabs: onClick={() => setActiveSemesterId(s.id)}
SelectSemester(k) ==
  /\ PageFree
  /\ k \in 1..Len(data.semesters)
  /\ data.semesters[k].id <= MaxActive
  /\ data.semesters[k].id # activeSemesterId
  /\ activeSemesterId' = data.semesters[k].id
  /\ PageEvent
  /\ UNCHANGED <<variant, data, storage, isLoaded, showWelcome, showResults,
                 isCalculating, showFinalModal, showSummaryPopup, timer, isScanning,
                 scan, alertOpen, savePending, countPending>>
  /\ UNCHANGED exportVars

\* "Tambah Mapel", rendered while semester 1 is the active semester
HandleAddSubject ==
  /\ PageFree
  /\ activeSemesterId = 1 /\ ActiveIndex(data, activeSemesterId) # 0
  /\ Len(data.semesters[1].subjects) < MaxSubjects
  /\ IF variant = "app"
     THEN /\ SetData([data EXCEPT !.semesters = handleAddSubjectApp(@)])
          /\ UNCHANGED showResults
     ELSE /\ SetData([data EXCEPT !.semesters = handleAddSubjectPart(@)])
          /\ showResults' = FALSE
  /\ PageEvent
  /\ UNCHANGED <<variant, activeSemesterId, isLoaded, showWelcome,
                 isCalculating, showFinalModal, showSummaryPopup, timer, isScanning,
                 scan, alertOpen>>
  /\ UNCHANGED exportVars

\* name input of row j (read-only unless semester 1 is active)
HandleUpdateName(j, value) ==
  /\ PageFree
  /\ activeSemesterId = 1
  /\ j \in 1..Len(ActiveSubjects)
  /\ value # ActiveSubjects[j].name
  /\ LET subId == ActiveSubjects[j].id
     IN  IF variant = "app"
         THEN SetData([data EXCEPT !.semesters =
                         handleUpdateSubjectApp(@, activeSemesterId, subId, "name", value)])
         ELSE SetData([data EXCEPT !.semesters =
                         handleUpdateSubjectPart(@, activeSemesterId, subId, "name", value)])
  /\ showResults' = FALSE
  /\ PageEvent
  /\ UNCHANGED <<variant, activeSemesterId, isLoaded, showWelcome,
                 isCalculating, showFinalModal, showSummaryPopup, timer, isScanning,
                 scan, alertOpen>>
  /\ UNCHANGED exportVars

\* src/App.tsx: Math.min(100, parseInt(e.target.value) || 0)
ScoreInputApp(v) == Min(ScoreCap, v)

\* src/unnamed/part_000: Math.min(100, Math.max(0, parseInt(e.target.value) || 0))
ScoreInputPart(v) == Min(ScoreCap, Max(0, v))

\* score input of row j of the active semester
HandleUpdateScore(j, v) ==
  /\ PageFree
  /\ j \in 1..Len(ActiveSubjects)
  /\ LET subId == ActiveSubjects[j].id
     IN  IF variant = "app"
         THEN SetData([data EXCEPT !.semesters =
                 handleUpdateSubjectApp(@, activeSemesterId, subId, "score", ScoreInputApp(v))])
         ELSE SetData([data EXCEPT !.semesters =
                 handleUpdateSubjectPart(@, activeSemesterId, subId, "score", ScoreInputPart(v))])
  /\ showResults' = FALSE
  /\ PageEvent
  /\ UNCHANGED <<variant, activeSemesterId, isLoaded, showWelcome,
                 isCalculating, showFinalModal, showSummaryPopup, timer, isScanning,
                 scan, alertOpen>>
  /\ UNCHANGED exportVars

\* delete button of row j, rendered while semester 1 is the active semester
HandleDeleteSubject(j) ==
  /\ PageFree
  /\ activeSemesterId = 1
  /\ j \in 1..Len(ActiveSubjects)
  /\ LET subId == ActiveSubjects[j].id
     IN  IF variant = "app"
         THEN SetData([data EXCEPT !.semesters = handleDeleteSubjectApp(@, subId)])
         ELSE SetData([data EXCEPT !.semesters = handleDeleteSubjectPart(@, subId)])
  /\ showResults' = FALSE
  /\ PageEvent
  /\ UNCHANGED <<variant, activeSemesterId, isLoaded, showWelcome,
                 isCalculating, showFinalModal, showSummaryPopup, timer, isScanning,
                 scan, alertOpen>>
  /\ UNCHANGED exportVars

(***************************************************************************)
(* The analysis delay                                                      *)
(***************************************************************************)
\* the bug: the results view is opened by the handler, not by the timer callback
ViewAfterTriggerEager(shown) == TRUE

\* triggerAnalysis itself leaves the flag of the results view as it is
ViewAfterTrigger(shown) == shown

\* the analysis button (disabled={!validation.canCalculate || isCalculating})
TriggerAnalysis ==
  /\ PageFree
  /\ ~isCalculating
  /\ canCalculate(variant, data)
  /\ isCalculating' = TRUE
  /\ timer' = IF variant = "app" /\ allSemestersComplete(data) THEN "final" ELSE "plain"
  /\ delayEdits' = 0
  /\ IF variant = "app"
     THEN /\ showResults' = ViewAfterTrigger(showResults)
          /\ UNCHANGED showSummaryPopup
     ELSE /\ showSummaryPopup' = ViewAfterTrigger(showSummaryPopup)
          /\ UNCHANGED showResults
  /\ UNCHANGED <<variant, data, storage, activeSemesterId, isLoaded, showWelcome,
                 showFinalModal, isScanning, scan,
                 alertOpen, savePending, countPending>>
  /\ UNCHANGED exportVars

\* the setTimeout callback, 1200 ms later
TimerFires ==
  /\ timer # "none"
  /\ EffectsIdle /\ ~alertOpen
  /\ timer' = "none"
  /\ isCalculating' = FALSE
  /\ IF variant = "app"
     THEN /\ showResults' = TRUE
          /\ showFinalModal' = (showFinalModal \/ timer = "final")
          /\ UNCHANGED showSummaryPopup
     ELSE /\ showSummaryPopup' = TRUE
          /\ UNCHANGED <<showResults, showFinalModal>>
  /\ delayEdits' = 0
  /\ UNCHANGED <<variant, data, storage, activeSemesterId, isLoaded, showWelcome,
                 isScanning, scan, alertOpen, savePending, countPending>>
  /\ UNCHANGED exportVars

\* src/App.tsx: the final modal's close buttons
CloseFinalModal ==
  /\ EffectsIdle /\ ~isScanning /\ ~alertOpen
  /\ showFinalModal
  /\ showFinalModal' = FALSE
  /\ UNCHANGED <<variant, delayEdits, data, storage, activeSemesterId, isLoaded, showWelcome,
                 showResults, isCalculating, showSummaryPopup, timer, isScanning, scan,
                 alertOpen, savePending, countPending>>
  /\ UNCHANGED exportVars

\* src/unnamed/part_000: the popup's close button, or "Prediksi Lengkap"
CloseSummaryPopup(full) ==
  /\ EffectsIdle
  /\ showSummaryPopup
  /\ showSummaryPopup' = FALSE
  /\ showResults' = IF full THEN TRUE ELSE showResults
  /\ UNCHANGED <<variant, delayEdits, data, storage, activeSemesterId, isLoaded, showWelcome,
                 isCalculating, showFinalModal, timer, isScanning, scan, alertOpen,
                 savePending, countPending>>
  /\ UNCHANGED exportVars

(***************************************************************************)
(* handleScanImage (src/App.tsx)                                           *)
(***************************************************************************)
\* the bug: Promise.allSettled, a failed call counts as returned
PromiseAllSettled(calls) ==
  IF \E i \in 1..Len(calls) : calls[i].st = "wait" THEN "pending" ELSE "fulfilled"

\* await Promise.all(scanPromises): rejected by the first call that fails,
\* fulfilled once every call has returned
PromiseAll(calls) ==
  IF \E i \in 1..Len(calls) : calls[i].st = "fail" THEN "rejected"
  ELSE IF \E i \in 1..Len(calls) : calls[i].st = "wait" THEN "pending"
  ELSE "fulfilled"

\* onChange of the file input with k images
HandleScanImage(k) ==
  /\ variant = "app"
  /\ PageFree
  /\ ActiveIndex(data, activeSemesterId) # 0
  /\ Len(ActiveSubjects) < MaxSubjects
  /\ isScanning' = TRUE
  /\ scan' = [ sem |-> activeSemesterId, before |-> <<data>>,
               calls |-> [i \in 1..k |-> [st |-> "wait", items |-> <<>>]],
               done |-> <<>> ]
  /\ PageEvent
  /\ UNCHANGED <<variant, data, storage, activeSemesterId, isLoaded, showWelcome,
                 showResults, isCalculating, showFinalModal, showSummaryPopup, timer,
                 alertOpen, savePending, countPending>>
  /\ UNCHANGED exportVars

\* the call of image i returns and its JSON parses
ScanCallResolve(i, r) ==
  /\ isScanning /\ ~alertOpen
  /\ PromiseAll(scan.calls) = "pending"
  /\ i \in 1..Len(scan.calls)
  /\ scan.calls[i].st = "wait"
  /\ scan' = [scan EXCEPT !.calls[i] = [st |-> "ok", items |-> r],
                          !.done = Append(@, i)]
  /\ UNCHANGED <<variant, delayEdits, data, storage, activeSemesterId, isLoaded, showWelcome,
                 showResults, isCalculating, showFinalModal, showSummaryPopup, timer,
                 isScanning, alertOpen, savePending, countPending>>
  /\ UNCHANGED exportVars

\* the call of image i fails: Promise.all rejects, the catch raises the alert
ScanCallReject(i) ==
  /\ isScanning /\ ~alertOpen
  /\ PromiseAll(scan.calls) = "pending"
  /\ i \in 1..Len(scan.calls)
  /\ scan.calls[i].st = "wait"
  /\ scan' = [scan EXCEPT !.calls[i] = [st |-> "fail", items |-> <<>>]]
  /\ alertOpen' = (PromiseAll(scan'.calls) = "rejected")
  /\ UNCHANGED <<variant, delayEdits, data, storage, activeSemesterId, isLoaded, showWelcome,
                 showResults, isCalculating, showFinalModal, showSummaryPopup, timer,
                 isScanning, savePending, countPending>>
  /\ UNCHANGED exportVars

\* the bug: setIsScanning(false) is missing
ScanFlagAfterNoFinally(flag) == flag

\* finally { setIsScanning(false) }
ScanFlagAfter(flag) == FALSE

\* the alert is dismissed: alert() returns and the finally block runs
AlertDismiss ==
  /\ alertOpen
  /\ alertOpen' = FALSE
  /\ isScanning' = ScanFlagAfter(isScanning)
  /\ scan' = NoScan
  /\ UNCHANGED <<variant, delayEdits, data, storage, activeSemesterId, isLoaded, showWelcome,
                 showResults, isCalculating, showFinalModal, showSummaryPopup, timer,
                 savePending, countPending>>
  /\ UNCHANGED exportVars

\* the bug: each call pushes its subjects to a shared array when it returns
AllDetectedAsReturned(calls, done) == Flat([n \in 1..Len(done) |-> calls[done[n]].items])

\* allResultsArray.flat(): Promise.all yields the results in the order of the
\* promises it was given, whatever the order (done) in which they returned
AllDetected(calls, done) == Flat([i \in 1..Len(calls) |-> calls[i].items])

\* await Promise.all(...) has a value: the rest of the try block is due
MergeDue ==
  /\ isScanning /\ ~alertOpen
  /\ EffectsIdle
  /\ PromiseAll(scan.calls) = "fulfilled"

\* every call has returned: the results are flattened in upload order and merged
ScanMerge ==
  /\ MergeDue
  /\ LET allDetected == AllDetected(scan.calls, scan.done)
     IN  SetData([data EXCEPT !.semesters = ScanMergeSems(@, scan.sem, allDetected)])
  /\ isScanning' = ScanFlagAfter(isScanning)
  /\ scan' = NoScan
  /\ UNCHANGED <<variant, delayEdits, activeSemesterId, isLoaded, showWelcome, showResults,
                 isCalculating, showFinalModal, showSummaryPopup, timer, alertOpen>>
  /\ UNCHANGED exportVars

(***************************************************************************)
(* handleExportPDF (src/unnamed/part_000)                                  *)
(***************************************************************************)
\* reportRef.current: the report is mounted while showResults is true
reportRef == showResults

\* the bug: the report is not looked at before the flag is set
ExportStartsUnguarded(rendered) == TRUE

\* if (!reportRef.current) return; setIsExporting(true)
ExportStarts(rendered) == rendered

\* the bug: setIsExporting(false) sits at the end of the try block, not in finally
ExportFlagAfterThrow(flag) == flag

\* finally { setIsExporting(false) }, reached from the catch block
ExportFlagAfter(flag) == FALSE

\* the export button (disabled={isExporting}), or any call of the handler
HandleExportPDF ==
  /\ variant = "part"
  /\ PageFree
  /\ ~isExporting /\ exportPc = "idle"
  /\ IF ExportStarts(reportRef)
     THEN /\ isExporting' = TRUE
          /\ exportPc' = "delay"
          /\ UNCHANGED exportResult
     ELSE UNCHANGED exportVars
  /\ PageEvent
  /\ UNCHANGED <<variant, data, storage, activeSemesterId, isLoaded, showWelcome,
                 showResults, isCalculating, showFinalModal, showSummaryPopup, timer,
                 isScanning, scan, alertOpen, savePending, countPending>>

\* the 500 ms pause ends and html2canvas(reportRef.current, ...) is called; with the
\* report unmounted in the meantime the call throws
ExportDelayDone ==
  /\ exportPc = "delay"
  /\ EffectsIdle
  /\ IF reportRef
     THEN /\ exportPc' = "raster"
          /\ UNCHANGED <<isExporting, exportResult>>
     ELSE /\ exportPc' = "idle"
          /\ exportResult' = "error"
          /\ isExporting' = ExportFlagAfter(isExporting)
  /\ UNCHANGED <<variant, delayEdits, data, storage, activeSemesterId, isLoaded, showWelcome,
                 showResults, isCalculating, showFinalModal, showSummaryPopup, timer,
                 isScanning, scan, alertOpen, savePending, countPending>>

\* html2canvas returns a canvas; toDataURL, new jsPDF, addImage and save follow in the
\* same task and either finish (packs) or throw
ExportRasterDone(packs) ==
  /\ exportPc = "raster"
  /\ EffectsIdle
  /\ exportPc' = "idle"
  /\ exportResult' = IF packs THEN "saved" ELSE "error"
  /\ isExporting' = IF packs THEN FALSE ELSE ExportFlagAfter(isExporting)
  /\ UNCHANGED <<variant, delayEdits, data, storage, activeSemesterId, isLoaded, showWelcome,
                 showResults, isCalculating, showFinalModal, showSummaryPopup, timer,
                 isScanning, scan, alertOpen, savePending, countPending>>

\* html2canvas rejects
ExportRasterFails ==
  /\ exportPc = "raster"
  /\ EffectsIdle
  /\ exportPc' = "idle"
  /\ exportResult' = "error"
  /\ isExporting' = ExportFlagAfter(isExporting)
  /\ UNCHANGED <<variant, delayEdits, data, storage, activeSemesterId, isLoaded, showWelcome,
                 showResults, isCalculating, showFinalModal, showSummaryPopup, timer,
                 isScanning, scan, alertOpen, savePending, countPending>>

Next ==
  \/ LoadEffect
  \/ SaveEffect
  \/ CountEffect
  \/ \E u \in UserInputs : TypeUserName(u)
  \/ CloseWelcome
  \/ OpenWelcome
  \/ \E v \in TargetInputs : SetTargetAvg(v)
  \/ \E v \in SemInputs : SetTotalSemesters(v)
  \/ \E k \in 1..SemCap : SelectSemester(k)
  \/ HandleAddSubject
  \/ \E j \in 1..MaxSubjects, value \in NameInputs : HandleUpdateName(j, value)
  \/ \E j \in 1..MaxSubjects, v \in ScoreInputs : HandleUpdateScore(j, v)
  \/ \E j \in 1..MaxSubjects : HandleDeleteSubject(j)
  \/ TriggerAnalysis
  \/ TimerFires
  \/ CloseFinalModal
  \/ \E full \in BOOLEAN : CloseSummaryPopup(full)
  \/ \E k \in 1..MaxFiles : HandleScanImage(k)
  \/ \E i \in 1..MaxFiles, r \in ScanResults : ScanCallResolve(i, r)
  \/ \E i \in 1..MaxFiles : ScanCallReject(i)
  \/ AlertDismiss
  \/ ScanMerge
  \/ HandleExportPDF
  \/ ExportDelayDone
  \/ \E packs \in BOOLEAN : ExportRasterDone(packs)
  \/ ExportRasterFails

Spec == Init /\ [][Next]_vars

\* a per-image call returns or fails
ScanCallSettles ==
  \/ \E i \in 1..MaxFiles, r \in ScanResults : ScanCallResolve(i, r)
  \/ \E i \in 1..MaxFiles : ScanCallReject(i)

\* html2canvas returns or rejects
ExportRasterSettles ==
  \/ \E packs \in BOOLEAN : ExportRasterDone(packs)
  \/ ExportRasterFails

\* The program with a user who enters a name and scores, changes tabs, runs the
\* analysis, scans and exports, and leaves the subject list and the settings alone.
NextLive ==
  \/ LoadEffect
  \/ SaveEffect
  \/ CountEffect
  \/ \E u \in UserInputs : TypeUserName(u)
  \/ CloseWelcome
  \/ \E k \in 1..SemCap : SelectSemester(k)
  \/ \E j \in 1..MaxSubjects, v \in ScoreInputs : HandleUpdateScore(j, v)
  \/ TriggerAnalysis
  \/ TimerFires
  \/ CloseFinalModal
  \/ \E full \in BOOLEAN : CloseSummaryPopup(full)
  \/ \E k \in 1..MaxFiles : HandleScanImage(k)
  \/ \E i \in 1..MaxFiles, r \in ScanResults : ScanCallResolve(i, r)
  \/ \E i \in 1..MaxFiles : ScanCallReject(i)
  \/ AlertDismiss
  \/ ScanMerge
  \/ HandleExportPDF
  \/ ExportDelayDone
  \/ \E packs \in BOOLEAN : ExportRasterDone(packs)
  \/ ExportRasterFails

\* The program with a user who works on the two settings, the scores and the
\* analysis, typing also negative and too large numbers into the settings.
NextSettings ==
  \/ LoadEffect
  \/ SaveEffect
  \/ CountEffect
  \/ \E u \in UserInputs : TypeUserName(u)
  \/ CloseWelcome
  \/ \E v \in TargetInputsWide : SetTargetAvg(v)
  \/ \E v \in SemInputsWide : SetTotalSemesters(v)
  \/ \E k \in 1..SemCap : SelectSemester(k)
  \/ HandleAddSubject
  \/ \E j \in 1..MaxSubjects, v \in ScoreInputs : HandleUpdateScore(j, v)
  \/ TriggerAnalysis
  \/ TimerFires
  \/ CloseFinalModal
  \/ \E full \in BOOLEAN : CloseSummaryPopup(full)

SettingsSpec == Init /\ [][NextSettings]_vars

\* Every awaited call settles, and continuations and timer callbacks run when
\* they are due.  What the user does (dismissing the alert included) is not
\* forced.  The merge is due exactly while ScanMerge is enabled and only
\* ScanMerge ends that, so []<>~MergeDue is WF_vars(ScanMerge).
FairSpec ==
  /\ Init /\ [][NextLive]_vars
  /\ WF_vars(ScanCallSettles) /\ []<>~MergeDue
  /\ WF_vars(ExportDelayDone) /\ WF_vars(ExportRasterSettles)

(***************************************************************************)
(* Properties                                                              *)
(***************************************************************************)
Names(semester) == [j \in 1..Len(semester.subjects) |-> semester.subjects[j].name]
SemIdx == 1..Len(data.semesters)

\* C1: getSemesterStatus is 'empty' exactly when the semester has no subject
\* with score > 0, 'complete' exactly when it has a subject and all have
\* score > 0, and 'partial' exactly in the remaining case.
C1_StatusTrichotomy ==
  \A k \in SemIdx :
    LET subs == data.semesters[k].subjects
        st == getSemesterStatus(data.semesters[k])
        none == \A j \in 1..Len(subs) : ~(subs[j].score > 0)
        all == Len(subs) >= 1 /\ \A j \in 1..Len(subs) : subs[j].score > 0
    IN  /\ st \in {"empty", "partial", "complete"}
        /\ (st = "empty") <=> none
        /\ (st = "complete") <=> all
        /\ (st = "partial") <=> (~none /\ ~all)

\* a state showing an empty semester with subjects, a partial and a complete one
C1_Witness ==
  /\ \E k \in SemIdx : /\ getSemesterStatus(data.semesters[k]) = "empty"
                       /\ Len(data.semesters[k].subjects) > 0
  /\ \E k \in SemIdx : getSemesterStatus(data.semesters[k]) = "partial"
  /\ \E k \in SemIdx : getSemesterStatus(data.semesters[k]) = "complete"

\* C2: with remaining = totalSemestersTarget - #complete > 0, neededAvg is
\* (targetAvg * totalSemestersTarget - sum of complete averages) / remaining,
\* clamped to >= 0 (and to <= 100 in src/App.tsx); it is 0 when remaining <= 0.
C2_NeededAvgFormula ==
  LET cs == completeSemesters(data)
      remaining == data.totalSemestersTarget - Len(cs)
      gap == RSub(RInt(data.targetAvg * data.totalSemestersTarget), SumAverages(cs, 1))
      na == neededAvg(variant, data)
  IN  IF remaining <= 0 THEN na = RInt(0)
      ELSE IF RLess(gap, RInt(0)) THEN na = RInt(0)
      ELSE IF variant = "app" /\ RLess(RInt(ScoreCap * remaining), gap)
           THEN na = RInt(ScoreCap)
      ELSE RMulInt(na, remaining) = gap

\* a complete semester exists, semesters remain, and the value is not clamped
C2_Witness ==
  /\ Len(completeSemesters(data)) > 0
  /\ data.totalSemestersTarget - Len(completeSemesters(data)) > 1
  /\ RLess(RInt(0), neededAvg(variant, data))
  /\ RLess(neededAvg(variant, data), RInt(ScoreCap))

\* what the semester-count effect makes of the list when it is to hold cnt semesters
ResizedTo(cnt) ==
  LET old == data.semesters
      new == data'.semesters
      L == Len(old)
  IN  /\ cnt > L =>
           /\ Len(new) = cnt
           /\ \A k \in 1..L : new[k] = old[k]
           /\ \A k \in (L + 1)..cnt :
                /\ new[k].id = k
                /\ Names(new[k]) = Names(old[1])
                /\ \A j \in 1..Len(new[k].subjects) : new[k].subjects[j].score = 0
      /\ cnt < L => new = SubSeq(old, 1, cnt)

\* C3 as stated: the effect resizes the list to n = totalSemestersTarget
C3_Original == [][CountEffect => ResizedTo(data.totalSemestersTarget)]_vars

\* C3 (amended): the semester-count effect resizes the list to
\* max(1, totalSemestersTarget): growing appends clones of semester 1 with
\* score 0 and ids L+1.., shrinking keeps exactly the first semesters.
C3_CountEffectResizes == [][CountEffect => ResizedTo(Max(1, data.totalSemestersTarget))]_vars

\* the effect is about to grow the list from a template that has subjects
C3_Witness ==
  /\ isLoaded /\ countPending /\ ~savePending
  /\ data.totalSemestersTarget > Len(data.semesters)
  /\ Len(data.semesters[1].subjects) > 0
  /\ \E j \in 1..Len(data.semesters[1].subjects) : data.semesters[1].subjects[j].score > 0

\* C4 as stated: after the effect, the list has totalSemestersTarget semesters
C4_Original == EffectsIdle => Len(data.semesters) = data.totalSemestersTarget

\* C4 (amended): after load, with no effect pending, the list has
\* max(1, totalSemestersTarget) semesters.
C4_CountInSync == EffectsIdle => Len(data.semesters) = Max(1, data.totalSemestersTarget)

\* the list was cut to one semester for an emptied count input
C4_Witness ==
  /\ EffectsIdle
  /\ data.totalSemestersTarget = 0
  /\ Len(data.semesters) = 1

\* C5: after a rename of row j of semester 1, every other semester holds the
\* new name at row j and no name that semester 1 does not have.
C5_RenamePropagates ==
  [][\A j \in 1..MaxSubjects, value \in NameInputs :
       HandleUpdateName(j, value) =>
         /\ data'.semesters[1].subjects[j].name = value
         /\ \A k \in 2..Len(data'.semesters) :
              LET subs == data'.semesters[k].subjects
              IN  /\ Len(subs) >= j
                  /\ subs[j].name = value
                  /\ \A i \in 1..Len(subs) :
                       subs[i].name \in Range(Names(data'.semesters[1]))]_vars

\* a rename is possible while another semester holds a score under the old name
C5_Witness ==
  /\ PageFree /\ activeSemesterId = 1
  /\ Len(data.semesters) >= 2
  /\ \E j \in 1..Len(data.semesters[1].subjects) :
       \E i \in 1..Len(data.semesters[2].subjects) :
         /\ data.semesters[2].subjects[i].name = data.semesters[1].subjects[j].name
         /\ data.semesters[2].subjects[i].score > 0

\* C6: with no effect pending, every semester lists semester 1's subject names
C6_Original ==
  EffectsIdle => \A k \in SemIdx : Names(data.semesters[k]) = Names(data.semesters[1])

\* C7: every score of every semester lies in [0, 100]
C7_Original ==
  \A k \in SemIdx :
    \A j \in 1..Len(data.semesters[k].subjects) :
      /\ data.semesters[k].subjects[j].score >= 0
      /\ data.semesters[k].subjects[j].score <= ScoreCap

\* C8: once loaded, every change of data is written: whenever the save effect
\* is not pending, the stored record is the record in memory.
C8_Persisted == (isLoaded /\ ~savePending) => storage = saveToStorage(data)

\* an edited record (a scored subject, a typed user name) is in storage
C8_Witness ==
  /\ isLoaded /\ ~savePending
  /\ storage # NoRecord
  /\ storage[1].userName = "u"
  /\ storage[1].targetAvg = 0
  /\ Len(storage[1].semesters) = 1
  /\ Len(storage[1].semesters[1].subjects) = MaxSubjects

\* C9 as stated: without a complete semester both averages are 0
C9_Original ==
  Len(completeSemesters(data)) = 0 =>
    /\ overallAvg(data) = RInt(0)
    /\ neededAvg(variant, data) = RInt(0)

\* C9 (amended): without a complete semester the overall average is 0, and the
\* needed average is targetAvg clamped as in C2 when totalSemestersTarget > 0,
\* and 0 otherwise.
C9_NoCompleteSemester ==
  Len(completeSemesters(data)) = 0 =>
    /\ overallAvg(data) = RInt(0)
    /\ neededAvg(variant, data) =
         IF data.totalSemestersTarget <= 0 THEN RInt(0)
         ELSE IF variant = "app"
              THEN RMax(RInt(0), RMin(RInt(ScoreCap), RInt(data.targetAvg)))
              ELSE RMax(RInt(0), RInt(data.targetAvg))

\* no semester is complete although scores are entered and a target is set
C9_Witness ==
  /\ Len(completeSemesters(data)) = 0
  /\ hasPartial(data)
  /\ data.targetAvg > 0
  /\ data.totalSemestersTarget > 1

\* C10: when a call fails, the alert is raised and data is what it was when the
\* scan started, until the scan has ended; nothing detected is merged.
C10_FailedScanMergesNothing ==
  [][/\ \A i \in 1..MaxFiles :
          ScanCallReject(i) => (alertOpen' /\ <<data'>> = scan.before)
     /\ (isScanning /\ \E i \in 1..Len(scan.calls) : scan.calls[i].st = "fail") =>
          (data' = data /\ <<data>> = scan.before)]_vars

\* the alert is up while another image's call has returned a detected subject
C10_Witness ==
  /\ alertOpen
  /\ \E i \in 1..Len(scan.calls) : scan.calls[i].st = "ok" /\ Len(scan.calls[i].items) > 0
  /\ <<data>> = scan.before

\* C11 as stated: every scan is followed by isScanning being false
C11_Original == isScanning ~> ~isScanning

\* C11 (amended): every scan that sets isScanning is followed by isScanning
\* being false when all calls succeed and by the failure alert when a call
\* fails, and isScanning is false once that alert is dismissed.
C11_ScanEnds ==
  /\ isScanning ~> (~isScanning \/ alertOpen)
  /\ [][(alertOpen /\ ~alertOpen') => ~isScanning']_vars

\* every call of a scan of several images has returned, the merge is next
C11_Witness ==
  /\ isScanning /\ ~alertOpen
  /\ Len(scan.calls) = MaxFiles
  /\ PromiseAll(scan.calls) = "fulfilled"

\* C12: every export that sets isExporting is followed by isExporting being
\* false, the flag being false whenever the handler ends (by success or by a
\* throw); an export requested while the report is not rendered does not set it.
C12_ExportEnds ==
  /\ isExporting ~> ~isExporting
  /\ [][(exportPc # "idle" /\ exportPc' = "idle") => ~isExporting']_vars
  /\ [][(~isExporting /\ isExporting') => reportRef]_vars

\* an export has thrown and the flag is cleared
C12_Witness ==
  /\ exportResult = "error"
  /\ exportPc = "idle" /\ ~isExporting
  /\ ~showResults

\* C13: when all calls of a scan succeed, the merge is one update whose result
\* is the merge of the images' subjects taken in upload order, whatever the
\* order in which the calls returned.
C13_MergeInUploadOrder ==
  [][ScanMerge =>
       data' = Canonical([data EXCEPT !.semesters =
                 ScanMergeSems(@, scan.sem,
                               Flat([i \in 1..Len(scan.calls) |-> scan.calls[i].items]))])]_vars

\* the calls of two images with different subjects have returned in reverse order
C13_Witness ==
  /\ MergeDue
  /\ scan.done = <<2, 1>>
  /\ scan.calls[1].items # scan.calls[2].items

\* the results view that the analysis opens
ResultsViewOpen == IF variant = "app" THEN showResults ELSE showSummaryPopup

\* C14: from triggerAnalysis until its timer fires isCalculating is true; the
\* firing timer clears isCalculating and opens the results view; the results
\* view is opened by no step other than a firing timer.
C14_AnalysisDelay ==
  /\ [](isCalculating <=> timer # "none")
  /\ [][TriggerAnalysis => (canCalculate(variant, data) /\ isCalculating')]_vars
  /\ [][TimerFires => (~isCalculating' /\ ResultsViewOpen')]_vars
  /\ [][(~ResultsViewOpen /\ ResultsViewOpen') => (timer # "none" /\ timer' = "none")]_vars

\* the delay is running and the results view is still closed
C14_Witness ==
  /\ isCalculating /\ timer # "none"
  /\ ~ResultsViewOpen

\* the names and scores of a semester's subjects, in order
NameScores(semester) ==
  [j \in 1..Len(semester.subjects) |->
     <<semester.subjects[j].name, semester.subjects[j].score>>]

RemoveAt(seq, i) == SubSeq(seq, 1, i - 1) \o SubSeq(seq, i + 1, Len(seq))

DistinctIds(semester) ==
  \A i, j \in 1..Len(semester.subjects) :
    semester.subjects[i].id = semester.subjects[j].id => i = j

\* C15: deleting row j of semester 1 removes that subject from semester 1 and
\* one entry of the same name from each other semester; every other subject
\* of every semester keeps its place, name and score.
C15_Original ==
  [][\A j \in 1..MaxSubjects :
       HandleDeleteSubject(j) =>
         /\ NameScores(data'.semesters[1]) = RemoveAt(NameScores(data.semesters[1]), j)
         /\ \A k \in 2..Len(data.semesters) :
              \E i \in 1..Len(data.semesters[k].subjects) :
                /\ data.semesters[k].subjects[i].name = data.semesters[1].subjects[j].name
                /\ NameScores(data'.semesters[k]) = RemoveAt(NameScores(data.semesters[k]), i)]_vars

\* C16: adding a subject in semester 1 appends one entry with an empty name and
\* score 0 to every semester and leaves the subjects that existed before in
\* place, with their names and scores and with ids that stay distinct.
C16_Original ==
  [][HandleAddSubject =>
       \A k \in 1..Len(data.semesters) :
         /\ NameScores(data'.semesters[k]) = Append(NameScores(data.semesters[k]), <<<<>>, 0>>)
         /\ DistinctIds(data.semesters[k]) => DistinctIds(data'.semesters[k])]_vars

\* C17 as stated: totalSemestersTarget is an integer in 1..12
C17_Original == data.totalSemestersTarget \in 1..SemCap

\* C17 (amended): totalSemestersTarget is an integer of at most 12; an emptied
\* input stores 0 and a negative number is stored as typed, and while the
\* value is below 1 canCalculate is false and one semester is kept.
C17_CountRange ==
  /\ data.totalSemestersTarget \in Int
  /\ data.totalSemestersTarget <= SemCap
  /\ data.totalSemestersTarget < 1 =>
       /\ ~canCalculate(variant, data)
       /\ EffectsIdle => Len(data.semesters) = 1

\* a negative count is stored while everything else would allow the analysis
C17_Witness ==
  /\ EffectsIdle
  /\ data.totalSemestersTarget < 0
  /\ Len(completeSemesters(data)) > 0 /\ ~hasPartial(data)
  /\ data.targetAvg > 0 /\ data.targetAvg <= ScoreCap

\* C18 as stated: targetAvg lies in [0, 100]
C18_Original == data.targetAvg >= 0 /\ data.targetAvg <= ScoreCap

\* C18 (amended): targetAvg is at most 100; an emptied input stores 0 and a
\* negative number is stored as typed, and while the value is not above 0
\* canCalculate is false.
C18_TargetRange ==
  /\ data.targetAvg <= ScoreCap
  /\ data.targetAvg <= 0 => ~canCalculate(variant, data)

\* a negative target is stored while everything else would allow the analysis
C18_Witness ==
  /\ EffectsIdle
  /\ data.targetAvg < 0
  /\ Len(completeSemesters(data)) > 0 /\ ~hasPartial(data)
  /\ data.totalSemestersTarget > 0

\* C19: the i-th semester of data.semesters has id i, so the ids are distinct
\* and are exactly 1..N.
C19_SemesterIds == \A i \in 1..Len(data.semesters) : data.semesters[i].id = i

\* the list was cut to one semester and is about to grow again
C19_Witness ==
  /\ isLoaded /\ countPending /\ ~savePending
  /\ Len(data.semesters) = 1
  /\ data.totalSemestersTarget > 1

RECURSIVE ScoreTotal(_)
ScoreTotal(subjects) ==
  IF subjects = <<>> THEN 0 ELSE Head(subjects).score + ScoreTotal(Tail(subjects))

AllScored(semester) ==
  /\ semester.subjects # <<>>
  /\ \A j \in 1..Len(semester.subjects) : semester.subjects[j].score > 0

RECURSIVE MeanSum(_)
\* the sum of the means of the semesters in which every subject is scored
MeanSum(sems) ==
  IF sems = <<>> THEN RInt(0)
  ELSE IF AllScored(Head(sems))
       THEN RAdd(Rat(ScoreTotal(Head(sems).subjects), Len(Head(sems).subjects)),
                 MeanSum(Tail(sems)))
       ELSE MeanSum(Tail(sems))

CompletelyEntered ==
  /\ \A k \in SemIdx :
       \/ \A j \in 1..Len(data.semesters[k].subjects) :
            data.semesters[k].subjects[j].score <= 0
       \/ AllScored(data.semesters[k])
  /\ \E k \in SemIdx : AllScored(data.semesters[k])
  /\ data.targetAvg > 0
  /\ variant = "part" => data.targetAvg <= ScoreCap
  /\ data.totalSemestersTarget > 0

\* C21: triggerAnalysis starts the analysis (sets isCalculating, starts the
\* timer) only on completely entered data; a timer and a raised isCalculating
\* come from triggerAnalysis alone, and the trigger leaves data as it is.
C21_AnalysisNeedsCompleteData ==
  /\ [][TriggerAnalysis => (CompletelyEntered /\ data' = data)]_vars
  /\ [][((~isCalculating /\ isCalculating') \/ (timer = "none" /\ timer' # "none")) =>
          CompletelyEntered]_vars

\* an analysis is running over a record with a scoreless semester next to a
\* complete one
C21_Witness ==
  /\ isCalculating /\ timer # "none" /\ delayEdits = 0
  /\ \E k \in SemIdx : AllScored(data.semesters[k])
  /\ \E k \in SemIdx : /\ data.semesters[k].subjects # <<>>
                       /\ ~AllScored(data.semesters[k])

\* C22: while the results report is displayed (showResults), canCalculate holds
\* for the data it is displayed over.
C22_Original == showResults => canCalculate(variant, data)

\* the scores of a semester's subjects, in order
Scores(semester) == [j \in 1..Len(semester.subjects) |-> semester.subjects[j].score]

\* C23: a rename in semester 1 leaves the scores of every semester as they
\* were, row by row.
C23_Original ==
  [][\A j \in 1..MaxSubjects, value \in NameInputs :
       HandleUpdateName(j, value) =>
         /\ Len(data'.semesters) = Len(data.semesters)
         /\ \A k \in SemIdx : Scores(data'.semesters[k]) = Scores(data.semesters[k])]_vars

\* C24: in every semester the subject ids are pairwise distinct
C24_Original == \A k \in SemIdx : DistinctIds(data.semesters[k])

\* C25: after load, with no semester-count effect pending, activeSemesterId is
\* the id of a semester of data.semesters.
C25_Original ==
  (isLoaded /\ ~countPending) => ActiveIndex(data, activeSemesterId) # 0

\* C26: nothing is written before the load has completed; the load takes the
\* stored record over as data; and the first write after the load, the save
\* effect of the mount, writes that record, so that a record found in storage
\* at start-up is still there after it and INITIAL_DATA is not written over it.
C26_StoredRecordKept ==
  /\ [][~isLoaded => storage' = storage]_vars
  /\ [][LoadEffect => (storage # NoRecord => <<data'>> = storage)]_vars
  /\ [][(isLoaded /\ savePending) =>
          /\ storage' = saveToStorage(data)
          /\ storage # NoRecord => (storage' = storage /\ storage' # <<INITIAL_DATA>>)]_vars

\* a stored record has been loaded and the save effect of the mount is about to run
C26_Witness ==
  /\ isLoaded /\ savePending
  /\ storage # NoRecord
  /\ <<data>> = storage
  /\ data # INITIAL_DATA

\* C27: a score edit of row j of the active semester leaves every other entry
\* of every semester as it was, and changes nothing but the score of row j.
C27_Original ==
  [][\A j \in 1..MaxSubjects, v \in ScoreInputs :
       HandleUpdateScore(j, v) =>
         LET a == ActiveIndex(data, activeSemesterId)
         IN  /\ Len(data'.semesters) = Len(data.semesters)
             /\ \A k \in SemIdx :
                  /\ data'.semesters[k].id = data.semesters[k].id
                  /\ Len(data'.semesters[k].subjects) = Len(data.semesters[k].subjects)
                  /\ \A i \in 1..Len(data.semesters[k].subjects) :
                       IF k = a /\ i = j
                       THEN /\ data'.semesters[k].subjects[i].name =
                                 data.semesters[k].subjects[i].name
                            /\ data'.semesters[k].subjects[i].id =
                                 data.semesters[k].subjects[i].id
                       ELSE data'.semesters[k].subjects[i] = data.semesters[k].subjects[i]]_vars

\* C28: in src/App.tsx the firing timer opens the final-result modal exactly if
\* every one of the totalSemestersTarget semesters is complete when it fires.
C28_Original ==
  [][(variant = "app" /\ TimerFires) =>
       (showFinalModal' <=> allSemestersComplete(data))]_vars

\* C29: after load a closed welcome dialog means a non-empty data.userName: the
\* load opens the dialog exactly when no name is stored, and the dialog is
\* closed by no step taken while the name is empty.
C29_ClosedWelcomeHasName ==
  /\ [](isLoaded /\ ~showWelcome => data.userName # "")
  /\ [][LoadEffect => (showWelcome' <=> data'.userName = "")]_vars
  /\ [][(showWelcome /\ ~showWelcome') => data.userName # ""]_vars

\* a fresh start (the record is still INITIAL_DATA but for the name): the name
\* was typed into the dialog and the dialog closed
C29_Witness ==
  /\ isLoaded /\ ~showWelcome
  /\ data = [INITIAL_DATA EXCEPT !.userName = "u"]

====
